---- MODULE Spec2Model ----
(***************************************************************************)
(* Model of the trading exchange of "trading system pbl/exchange.py":      *)
(* the global order_books dictionary, match_order, and the consumer        *)
(* callback of main() that reads the 'orders' queue and publishes to the   *)
(* 'trades' queue.                                                         *)
(*                                                                         *)
(* Prices are floats in the program; the model uses integers, which the    *)
(* program's comparisons (<=, >=, sort by price) treat the same way.       *)
(* The timestamp strings (datetime.now().isoformat()) take no part in      *)
(* matching and are left out of the order and trade records.               *)
(* Fields named seq, and the variables last, returned and ledger, are      *)
(* history (ghost) state: they record arrival order, what the last         *)
(* callback did and how much of every order has traded, and the program    *)
(* does not read them.  ordersQ is the 'orders' queue between the          *)
(* submission clients and the exchange; sent is history too: the last run  *)
(* of a submission client and what it published.                           *)
(*                                                                         *)
(* The module also models the display client "Trading_GUI.py" (the         *)
(* listener thread's callback and the GUI thread's update_display, step by *)
(* step) and the chat application "chat_application_pdt/chat.py" (users    *)
(* with one queue each behind a fanout exchange).  Each program has its    *)
(* own next-state relation and specification; the actions of one leave the *)
(* variables of the others unchanged.                                      *)
(***************************************************************************)
EXTENDS Integers, Sequences, FiniteSets, TLC

\* ---------------------------------------------------------------- bounds
MaxOrders == 3
MaxQty == 2
MaxPrice == 2
MaxSent == 2

Users == {"A", "B"}
Stocks == {"XYZ", "ABC"}
BookSides == {"BUY", "SELL"}
Sides == {"BUY", "SELL", "HOLD"}
Keys == {"username", "stock", "side", "quantity", "price", "timestamp"}

VARIABLES order_books, tradesQ, exchange, nextSeq, returned, last, ledger, ordersQ, sent

\* Trading_GUI.py: the fields of TradeGUI, the widgets it writes, the Tk
\* event queue of master.after callbacks, and the position of the listener
\* thread and of the GUI thread.
VARIABLES latest_prices, trade_history, stock_var, dropdown_values, price_label,
          history_text, afterQ, listener, gui, selects

guiVars == <<latest_prices, trade_history, stock_var, dropdown_values, price_label,
             history_text, afterQ, listener, gui, selects>>

\* chat.py: the ChatApplication of every user who has started one (app), the
\* message queues of the broker, which are the queues bound to the fanout
\* exchange 'chat_broadcast', by user (queues), and history state:
\* chatLog records every published message with the users whose queue was
\* bound when it was published, drops counts the lost connections and the
\* failed attempts to connect.
VARIABLES app, queues, chatLog, drops

chatVars == <<app, queues, chatLog, drops>>

exchangeVars == <<order_books, tradesQ, exchange, nextSeq, returned, last, ledger, ordersQ,
                  sent>>

vars == <<order_books, tradesQ, exchange, nextSeq, returned, last, ledger, ordersQ, sent,
          guiVars, chatVars>>

\* ---------------------------------------------------------------- helpers
Min(a, b) == IF a <= b THEN a ELSE b

RECURSIVE SumQty(_)
SumQty(s) == IF s = <<>> THEN 0 ELSE Head(s).quantity + SumQty(Tail(s))

SeqToSet(s) == {s[i] : i \in 1..Len(s)}

\* ---------------------------------------------------------------- inputs
\* A message body on the 'orders' queue.  parses = FALSE is a body that
\* json.loads rejects; keys is the set of keys of the decoded dictionary.
IsValid(o) == o.side \in BookSides /\ o.quantity > 0 /\ o.price > 0

\* Valid orders for the first stock: every side, quantity and price from the
\* first user and a unit order of each side from the others; for every other
\* stock a unit order of each side.
ValidOrders ==
    [username : {"A"}, stock : {"XYZ"}, side : BookSides,
     quantity : 1..MaxQty, price : 1..MaxPrice]
    \cup [username : Users \ {"A"}, stock : {"XYZ"}, side : BookSides,
          quantity : {1}, price : {1}]
    \cup [username : {"A"}, stock : Stocks \ {"XYZ"}, side : BookSides,
          quantity : {1}, price : {1}]

\* Orders with all six fields of which exactly one is out of range, and the
\* order of an unknown side and no quantity.
InvalidOrders ==
    {o \in [username : {"A"}, stock : {"XYZ"}, side : Sides,
            quantity : 0..1, price : 0..1] :
        /\ ~IsValid(o)
        /\ o.side = "HOLD" => o.price = 1
        /\ o.side # "HOLD" => o.quantity + o.price = 1}

BaseOrder == [username |-> "A", stock |-> "XYZ", side |-> "BUY", quantity |-> 1, price |-> 1]

Body(parses, keys, o) ==
    [parses |-> parses, keys |-> keys, username |-> o.username, stock |-> o.stock,
     side |-> o.side, quantity |-> o.quantity, price |-> o.price]

WellFormedBodies == {Body(TRUE, Keys, o) : o \in ValidOrders \cup InvalidOrders}

MalformedBodies ==
    {Body(FALSE, {}, BaseOrder)}
    \cup {Body(TRUE, Keys \ {k}, BaseOrder) : k \in {"stock", "side"}}

Bodies == WellFormedBodies \cup MalformedBodies

IsMalformed(b) == ~b.parses \/ ~(Keys \subseteq b.keys)
IsValidBody(b) == ~IsMalformed(b) /\ IsValid(b)

\* ---------------------------------------------------------------- match_order
\* print_order_received reads all six keys of the decoded dictionary; a
\* missing key raises KeyError.
PrintOrderReceivedOk(b) == Keys \subseteq b.keys

\* InsertByKey as an unstable sort would do it: an element goes before the
\* elements of equal key already placed.
RECURSIVE InsertByKeyUnstable(_, _, _)
InsertByKeyUnstable(o, s, sign) ==
    IF s = <<>> THEN <<o>>
    ELSE IF sign * Head(s).price < sign * o.price
         THEN <<Head(s)>> \o InsertByKeyUnstable(o, Tail(s), sign)
         ELSE <<o>> \o s

\* list.sort(key=...) is stable: elements with equal keys keep their order.
\* sign = 1 sorts by price, sign = -1 by -price.
RECURSIVE InsertByKey(_, _, _)
InsertByKey(o, s, sign) ==
    IF s = <<>> THEN <<o>>
    ELSE IF sign * Head(s).price <= sign * o.price
         THEN <<Head(s)>> \o InsertByKey(o, Tail(s), sign)
         ELSE <<o>> \o s

RECURSIVE SortByPrice(_, _)
SortByPrice(s, sign) ==
    IF s = <<>> THEN <<>>
    ELSE InsertByKey(s[Len(s)], SortByPrice(SubSeq(s, 1, Len(s) - 1), sign), sign)

OppositeSide(side) == IF side = "BUY" THEN "SELL" ELSE "BUY"

\* SortOpposite with one key for both sides: BUY orders are sorted by
\* ascending price too.
SortOppositeAscending(orders, opposite_side) == SortByPrice(orders, 1)

SortOpposite(orders, opposite_side) ==
    IF opposite_side = "SELL" THEN SortByPrice(orders, 1) ELSE SortByPrice(orders, -1)

\* PriceMatch with strict comparisons: equal prices do not match.
PriceMatchStrict(side, new_price, existing_price) ==
    \/ side = "BUY" /\ new_price > existing_price
    \/ side = "SELL" /\ new_price < existing_price

\* PriceMatch without the price comparison.
PriceMatchAny(side, new_price, existing_price) == side \in {"BUY", "SELL"}

PriceMatch(side, new_price, existing_price) ==
    \/ side = "BUY" /\ new_price >= existing_price
    \/ side = "SELL" /\ new_price <= existing_price

\* MakeTrade with buyer and seller exchanged.
MakeTradeSwapped(stock, new_order, existing_order, trade_qty) ==
    [stock    |-> stock,
     buyer    |-> IF new_order.side = "BUY" THEN existing_order.username ELSE new_order.username,
     seller   |-> IF new_order.side = "BUY" THEN new_order.username ELSE existing_order.username,
     price    |-> IF new_order.side = "BUY" THEN existing_order.price ELSE new_order.price,
     quantity |-> trade_qty]

MakeTrade(stock, new_order, existing_order, trade_qty) ==
    [stock    |-> stock,
     buyer    |-> IF new_order.side = "BUY" THEN new_order.username ELSE existing_order.username,
     seller   |-> IF new_order.side = "BUY" THEN existing_order.username ELSE new_order.username,
     price    |-> IF new_order.side = "BUY" THEN existing_order.price ELSE new_order.price,
     quantity |-> trade_qty]

\* Line 83 left out: the incoming order's remaining quantity is not reduced.
RemainingAfterUnchanged(remaining_qty, trade_qty) == remaining_qty

\* Line 83: remaining_qty -= trade_qty.
RemainingAfter(remaining_qty, trade_qty) == remaining_qty - trade_qty

\* Lines 84-88 popping the matched order after every trade, filled or not.
ReduceOrRemoveAlwaysPop(matching_orders, trade_qty) == Tail(matching_orders)

\* Lines 84-88 without line 84: the matched order keeps its quantity and is
\* popped only when the trade takes all of it.
ReduceOrRemoveNoDecrement(matching_orders, trade_qty) ==
    IF matching_orders[1].quantity = trade_qty
    THEN Tail(matching_orders)
    ELSE matching_orders

\* Lines 84-88: the matched order's quantity is reduced in place and the
\* order is popped from the front of the list when it reaches 0.
ReduceOrRemove(matching_orders, trade_qty) ==
    LET existing_order == matching_orders[1]
        left == existing_order.quantity - trade_qty
    IN IF left = 0
       THEN Tail(matching_orders)
       ELSE <<[existing_order EXCEPT !.quantity = left]>> \o Tail(matching_orders)

\* The while loop of match_order.  acc gathers the trades and, as history,
\* one fill record per trade naming the resting order it was matched against.
RECURSIVE MatchLoop(_, _, _, _, _)
MatchLoop(new_order, stock, matching_orders, remaining_qty, acc) ==
    IF matching_orders = <<>> \/ ~(remaining_qty > 0)
    THEN [matching_orders |-> matching_orders, remaining_qty |-> remaining_qty,
          trades |-> acc.trades, fills |-> acc.fills]
    ELSE LET existing_order == matching_orders[1] IN
         IF ~PriceMatch(new_order.side, new_order.price, existing_order.price)
         THEN [matching_orders |-> matching_orders, remaining_qty |-> remaining_qty,
               trades |-> acc.trades, fills |-> acc.fills]
         ELSE LET trade_qty == Min(remaining_qty, existing_order.quantity)
                  trade == MakeTrade(stock, new_order, existing_order, trade_qty)
                  fill == [resting |-> existing_order.seq,
                           restingPrice |-> existing_order.price,
                           restingQty |-> existing_order.quantity,
                           remainingBefore |-> remaining_qty,
                           quantity |-> trade_qty]
              IN MatchLoop(new_order, stock,
                           ReduceOrRemove(matching_orders, trade_qty),
                           RemainingAfter(remaining_qty, trade_qty),
                           [trades |-> Append(acc.trades, trade),
                            fills |-> Append(acc.fills, fill)])

\* EnsureBook without the membership test: the book is reset on every call.
EnsureBookAlways(books, stock) ==
    [s \in DOMAIN books \cup {stock} |->
        IF s = stock THEN [BUY |-> <<>>, SELL |-> <<>>] ELSE books[s]]

\* Lines 39-40: the book of a stock is created on first reference.
EnsureBook(books, stock) ==
    IF stock \in DOMAIN books THEN books
    ELSE (stock :> [BUY |-> <<>>, SELL |-> <<>>]) @@ books

\* Lines 90-93: what is left of the new order is appended to its own side.
\* order_books[stock][side] raises KeyError when side is no key of the book.
RestRaises(side, remaining_qty) == remaining_qty > 0 /\ side \notin BookSides

\* Rest without line 92: the order rests with its original quantity.
RestFullQuantity(book, new_order, remaining_qty, seq) ==
    IF remaining_qty > 0 /\ new_order.side \in BookSides
    THEN [book EXCEPT ![new_order.side] =
            Append(@, [username |-> new_order.username, stock |-> new_order.stock,
                       side |-> new_order.side, quantity |-> new_order.quantity,
                       price |-> new_order.price, seq |-> seq])]
    ELSE book

\* Rest appending to the list of the opposite side.
RestWrongSide(book, new_order, remaining_qty, seq) ==
    IF remaining_qty > 0 /\ new_order.side \in BookSides
    THEN [book EXCEPT ![OppositeSide(new_order.side)] =
            Append(@, [username |-> new_order.username, stock |-> new_order.stock,
                       side |-> new_order.side, quantity |-> remaining_qty,
                       price |-> new_order.price, seq |-> seq])]
    ELSE book

\* Rest inserting at the front of the list instead of appending.
RestPrepend(book, new_order, remaining_qty, seq) ==
    IF remaining_qty > 0 /\ new_order.side \in BookSides
    THEN [book EXCEPT ![new_order.side] =
            <<[username |-> new_order.username, stock |-> new_order.stock,
               side |-> new_order.side, quantity |-> remaining_qty,
               price |-> new_order.price, seq |-> seq]>> \o @]
    ELSE book

Rest(book, new_order, remaining_qty, seq) ==
    IF remaining_qty > 0 /\ new_order.side \in BookSides
    THEN [book EXCEPT ![new_order.side] =
            Append(@, [username |-> new_order.username, stock |-> new_order.stock,
                       side |-> new_order.side, quantity |-> remaining_qty,
                       price |-> new_order.price, seq |-> seq])]
    ELSE book

\* match_order(new_order) on the books, for the order arriving as number seq.
\* Yields the books after the call, the trades returned, and whether the
\* call raised (in which case nothing is returned).
MatchOrder(books, new_order, seq) ==
    LET stock == IF "stock" \in new_order.keys THEN new_order.stock ELSE "XYZ"
        side == new_order.side
        books1 == EnsureBook(books, stock)
        opposite_side == OppositeSide(side)
        sorted == SortOpposite(books1[stock][opposite_side], opposite_side)
        loop == MatchLoop(new_order, stock, sorted, new_order.quantity,
                          [trades |-> <<>>, fills |-> <<>>])
        book2 == [books1[stock] EXCEPT ![opposite_side] = loop.matching_orders]
        raised == RestRaises(side, loop.remaining_qty)
        book3 == Rest(book2, new_order, loop.remaining_qty, seq)
    IN [books |-> [books1 EXCEPT ![stock] = book3],
        raised |-> raised,
        trades |-> IF raised THEN <<>> ELSE loop.trades,
        fills |-> loop.fills,
        remaining_qty |-> loop.remaining_qty]

\* ---------------------------------------------------------------- exchange
NoBody == Body(FALSE, {}, BaseOrder)

NoArgv == [argc |-> 0, username |-> "A", stock |-> "XYZ", side |-> "BUY",
           quantity |-> 1, price |-> 1]

\* TradeGUI.__init__: no price, no trade, nothing selected, the label reads
\* "Latest Price: N/A", the history box is empty and the listener thread has
\* been started.
NoLabel == [stock |-> "", price |-> 0]

InitGUI ==
    /\ latest_prices = <<>>
    /\ trade_history = <<>>
    /\ stock_var = ""
    /\ dropdown_values = <<>>
    /\ price_label = NoLabel
    /\ history_text = <<>>
    /\ afterQ = <<>>
    /\ listener = [pc |-> "consuming"]
    /\ gui = [pc |-> "mainloop"]
    /\ selects = 0

\* chat.py before any user has started the application: no window, no
\* queue, nothing published.
ChatUsers == {"u1", "u2", "u3"}

InitChat ==
    /\ app = <<>>
    /\ queues = <<>>
    /\ chatLog = <<>>
    /\ drops = 0

Init ==
    /\ order_books = <<>>
    /\ tradesQ = <<>>
    /\ exchange = "running"
    /\ nextSeq = 1
    /\ returned = <<>>
    /\ last = [seq |-> 0, body |-> NoBody, called |-> FALSE, raised |-> FALSE,
               trades |-> <<>>, fills |-> <<>>, before |-> <<>>, published |-> 0]
    /\ ledger = <<>>
    /\ ordersQ = <<>>
    /\ sent = [client |-> "none", argv |-> NoArgv, published |-> FALSE, body |-> NoBody]
    /\ InitGUI
    /\ InitChat

\* What the callback of main() computes for one message body before it
\* publishes: json.loads and print_order_received decide whether match_order
\* is called at all.
Outcome(body) ==
    IF body.parses /\ PrintOrderReceivedOk(body)
    THEN [called |-> TRUE] @@ MatchOrder(order_books, body, nextSeq)
    ELSE [called |-> FALSE, books |-> order_books, raised |-> FALSE, trades |-> <<>>,
          fills |-> <<>>, remaining_qty |-> 0]

\* History: ledger[n] holds, for the n-th consumed message, whether it was a
\* valid order, its original quantity and the quantity it has traded so far,
\* as incoming order or as resting order.
RECURSIVE FilledOf(_, _)
FilledOf(fills, seq) ==
    IF fills = <<>> THEN 0
    ELSE (IF Head(fills).resting = seq THEN Head(fills).quantity ELSE 0)
         + FilledOf(Tail(fills), seq)

Booked(book, body, m) ==
    Append([n \in 1..Len(book) |->
               [book[n] EXCEPT !.traded = @ + FilledOf(m.fills, n)]],
           [valid |-> IsValidBody(body), original |-> body.quantity,
            traded |-> SumQty(m.fills)])

\* The consumer callback of main() for one message of the 'orders' queue.
\* dropAt = 0: the channel is healthy; dropAt = k > 0: the channel drops and
\* the k-th basic_publish of this callback raises.  Any exception leaves
\* start_consuming and is caught at line 137: the exchange prints
\* "Exchange failed" and the process ends.
Deliver(body, dropAt) ==
    \E m \in {Outcome(body)} :
    LET npub == IF dropAt = 0 THEN Len(m.trades) ELSE dropAt - 1
    IN /\ order_books' = m.books
       /\ tradesQ' = tradesQ \o SubSeq(m.trades, 1, npub)
       /\ returned' = returned \o m.trades
       /\ exchange' = IF ~m.called \/ m.raised \/ npub < Len(m.trades)
                      THEN "failed" ELSE "running"
       /\ last' = [seq |-> nextSeq, body |-> body, called |-> m.called,
                   raised |-> m.raised, trades |-> m.trades, fills |-> m.fills,
                   before |-> order_books, published |-> npub]
       /\ ledger' = Booked(ledger, body, m)
       /\ nextSeq' = nextSeq + 1
       /\ UNCHANGED <<guiVars, chatVars>>

\* start_consuming delivers messages while the process runs; the model stops
\* after MaxOrders messages.
Consuming == exchange = "running" /\ nextSeq <= MaxOrders

\* callback with the channel healthy: every trade is published.
Callback ==
    /\ Consuming
    /\ \E body \in Bodies : Deliver(body, 0)
    /\ UNCHANGED <<ordersQ, sent>>

\* callback during which the channel drops: one of the basic_publish calls
\* of this callback raises.
CallbackChannelDrop ==
    /\ Consuming
    /\ \E body \in Bodies :
          \E dropAt \in 1..Len(Outcome(body).trades) : Deliver(body, dropAt)
    /\ UNCHANGED <<ordersQ, sent>>

Next == Callback \/ CallbackChannelDrop

Spec == Init /\ [][Next]_vars

\* ---------------------------------------------------------------- submission clients
\* str.upper() on the strings the clients are given.
Upper(str) ==
    CASE str = "buy" -> "BUY"
      [] str = "sell" -> "SELL"
      [] str = "hold" -> "HOLD"
      [] str = "xyz" -> "XYZ"
      [] OTHER -> str

\* Command lines: argc is len(sys.argv); quantity and price are the values
\* int() and float() give for the arguments.
Argvs ==
    {a \in [argc : {6, 7}, username : {"A"}, stock : {"XYZ", "xyz"},
            side : {"BUY", "buy", "sell", "hold"}, quantity : 0..1, price : 0..1] :
        /\ a.quantity + a.price >= 1
        /\ a.argc = 6 => a.stock = "XYZ"}

\* Messages of other producers, which differ from one another only in the
\* letter case of side and stock.
CaseBodies ==
    {Body(TRUE, Keys, o) :
        o \in [username : {"A"}, stock : {"XYZ", "xyz"},
               side : {"BUY", "buy", "SELL", "sell"}, quantity : {1}, price : {1}]}

Published == (nextSeq - 1) + Len(ordersQ)

\* Send_Order.py: send_order() run with the command line argv.
SendOrder(argv) ==
    LET stock == Upper(argv.stock)
        side == Upper(argv.side)
        order == [username |-> argv.username, stock |-> stock, side |-> side,
                  quantity |-> argv.quantity, price |-> argv.price]
        publishes == /\ argv.argc = 7
                     /\ ~(side \notin {"BUY", "SELL"} \/ argv.quantity <= 0 \/ argv.price <= 0)
    IN /\ Published < MaxSent
       /\ ordersQ' = IF publishes THEN Append(ordersQ, Body(TRUE, Keys, order)) ELSE ordersQ
       /\ sent' = [client |-> "Send_Order", argv |-> argv, published |-> publishes,
                   body |-> IF publishes THEN Body(TRUE, Keys, order) ELSE NoBody]
       /\ UNCHANGED <<order_books, tradesQ, exchange, nextSeq, returned, last, ledger>>
       /\ UNCHANGED <<guiVars, chatVars>>

\* hey.py: send_order() run with the command line argv, which has no stock.
HeySendOrder(argv) ==
    LET side == Upper(argv.side)
        order == [username |-> argv.username, stock |-> "XYZ", side |-> side,
                  quantity |-> argv.quantity, price |-> argv.price]
        body == Body(TRUE, Keys \ {"stock"}, order)
        publishes == argv.argc = 6
    IN /\ Published < MaxSent
       /\ ordersQ' = IF publishes THEN Append(ordersQ, body) ELSE ordersQ
       /\ sent' = [client |-> "hey", argv |-> argv, published |-> publishes,
                   body |-> IF publishes THEN body ELSE NoBody]
       /\ UNCHANGED <<order_books, tradesQ, exchange, nextSeq, returned, last, ledger>>
       /\ UNCHANGED <<guiVars, chatVars>>

\* Another producer publishes a message to 'orders'.
DirectPublish(body) ==
    /\ Published < MaxSent
    /\ ordersQ' = Append(ordersQ, body)
    /\ UNCHANGED <<order_books, tradesQ, exchange, nextSeq, returned, last, ledger, sent>>
    /\ UNCHANGED <<guiVars, chatVars>>

\* The exchange consumes the message at the head of 'orders'.
ExchangeConsume ==
    /\ exchange = "running"
    /\ ordersQ # <<>>
    /\ Deliver(Head(ordersQ), 0)
    /\ ordersQ' = Tail(ordersQ)
    /\ UNCHANGED sent

NextClients ==
    \/ \E argv \in Argvs : SendOrder(argv)
    \/ \E argv \in Argvs : HeySendOrder(argv)
    \/ \E body \in CaseBodies : DirectPublish(body)
    \/ ExchangeConsume

SpecClients == Init /\ [][NextClients]_vars

\* ---------------------------------------------------------------- reference scenario
\* The four orders of the reference scenario, delivered to the same callback
\* in any order and number up to four.
ScenarioOrders ==
    << [username |-> "A", stock |-> "XYZ", side |-> "SELL", quantity |-> 100, price |-> 50],
       [username |-> "B", stock |-> "XYZ", side |-> "BUY", quantity |-> 60, price |-> 51],
       [username |-> "C", stock |-> "XYZ", side |-> "BUY", quantity |-> 50, price |-> 49],
       [username |-> "D", stock |-> "XYZ", side |-> "SELL", quantity |-> 40, price |-> 48] >>

ScenarioBodies == {Body(TRUE, Keys, ScenarioOrders[i]) : i \in 1..Len(ScenarioOrders)}

ScenarioCallback ==
    /\ exchange = "running"
    /\ nextSeq <= Len(ScenarioOrders)
    /\ \E body \in ScenarioBodies : Deliver(body, 0)
    /\ UNCHANGED <<ordersQ, sent>>

SpecScenario == Init /\ [][ScenarioCallback]_vars

\* ---------------------------------------------------------------- display client
\* Trading_GUI.py.  The listener thread runs callback for every message of
\* 'trades'; the GUI thread runs the Tk main loop, which runs update_display
\* when the user picks a stock in the dropdown and when a callback scheduled
\* with master.after comes up.  The assignments of callback and the reads of
\* update_display are plain Python and interleave freely.  A Tk call made on
\* the listener thread (stock_var.get, master.after) is handed to the main
\* loop and waits until the GUI thread is back in it.
MaxTrades == 12
MaxOther == 1
MaxSelects == 2
MaxPending == 2

\* The trades the exchange publishes carry all six fields; timestamp is the
\* exchange's clock, which the model counts in trades.
TradePrice(n) == (n % MaxPrice) + 1

TradeAt(n, stock) ==
    [stock |-> stock, buyer |-> "A", seller |-> "B", price |-> TradePrice(n),
     quantity |-> 1, timestamp |-> n]

Others(history) == Cardinality({i \in 1..Len(history) : history[i].stock # "XYZ"})

Incoming ==
    LET n == Len(trade_history) + 1
    IN {TradeAt(n, stock) : stock \in IF Others(trade_history) < MaxOther
                                        THEN Stocks ELSE {"XYZ"}}

\* self.latest_prices[stock] = price on a dict, which keeps its keys in the
\* order of their first assignment.
SetPrice(prices, stock, price) ==
    IF \E i \in 1..Len(prices) : prices[i].stock = stock
    THEN [i \in 1..Len(prices) |->
             IF prices[i].stock = stock THEN [stock |-> stock, price |-> price]
             ELSE prices[i]]
    ELSE Append(prices, [stock |-> stock, price |-> price])

\* list(self.latest_prices.keys())
KeysOf(prices) == [i \in 1..Len(prices) |-> prices[i].stock]

\* self.latest_prices.get(stock, "N/A"); 0 stands for "N/A".
GetPrice(prices, stock) ==
    IF \E i \in 1..Len(prices) : prices[i].stock = stock
    THEN (CHOOSE e \in SeqToSet(prices) : e.stock = stock).price
    ELSE 0

\* [t for t in self.trade_history if t.get("stock") == stock]
TradesOf(history, stock) ==
    LET IsOf(t) == t.stock = stock IN SelectSeq(history, IsOf)

LastTradesAll(trades) == trades

\* trades[-10:]
LastTrades(trades) ==
    IF Len(trades) <= 10 THEN trades ELSE SubSeq(trades, Len(trades) - 9, Len(trades))

\* reversed(...)
Reversed(trades) == [i \in 1..Len(trades) |-> trades[Len(trades) + 1 - i]]

RefreshDueNever(stock) == FALSE

\* if self.stock_var.get() == stock
RefreshDue(stock) == stock_var = stock

\* callback, lines 60-65: the trade is decoded and its price recorded.
ListenerReceive ==
    /\ listener.pc = "consuming"
    /\ Len(trade_history) < MaxTrades
    /\ \E trade \in Incoming :
          /\ latest_prices' = SetPrice(latest_prices, trade.stock, trade.price)
          /\ listener' = [pc |-> "L66", trade |-> trade]
    /\ UNCHANGED <<trade_history, stock_var, dropdown_values, price_label, history_text,
                   afterQ, gui, selects>>
    /\ UNCHANGED <<exchangeVars, chatVars>>

\* callback, lines 66-69: the trade joins the history and the known stocks
\* are listed.
ListenerAppend ==
    /\ listener.pc = "L66"
    /\ trade_history' = Append(trade_history, listener.trade)
    /\ listener' = [pc |-> "L70", trade |-> listener.trade, stocks |-> KeysOf(latest_prices)]
    /\ UNCHANGED <<latest_prices, stock_var, dropdown_values, price_label, history_text,
                   afterQ, gui, selects>>
    /\ UNCHANGED <<exchangeVars, chatVars>>

\* callback, line 70: master.after(0, configure the dropdown).
ListenerAfterConfigure ==
    /\ listener.pc = "L70"
    /\ gui.pc = "mainloop"
    /\ Len(afterQ) < MaxPending
    /\ afterQ' = Append(afterQ, [kind |-> "configure", values |-> listener.stocks])
    /\ listener' = [listener EXCEPT !.pc = "L73"]
    /\ UNCHANGED <<latest_prices, trade_history, stock_var, dropdown_values, price_label,
                   history_text, gui, selects>>
    /\ UNCHANGED <<exchangeVars, chatVars>>

\* callback, line 73: the selection is read.
ListenerCheckSelected ==
    /\ listener.pc = "L73"
    /\ gui.pc = "mainloop"
    /\ listener' = IF RefreshDue(listener.trade.stock)
                    THEN [listener EXCEPT !.pc = "L74"] ELSE [pc |-> "consuming"]
    /\ UNCHANGED <<latest_prices, trade_history, stock_var, dropdown_values, price_label,
                   history_text, afterQ, gui, selects>>
    /\ UNCHANGED <<exchangeVars, chatVars>>

\* callback, line 74: master.after(0, self.update_display).
ListenerAfterRefresh ==
    /\ listener.pc = "L74"
    /\ gui.pc = "mainloop"
    /\ Len(afterQ) < MaxPending
    /\ afterQ' = Append(afterQ, [kind |-> "update_display", values |-> <<>>])
    /\ listener' = [pc |-> "consuming"]
    /\ UNCHANGED <<latest_prices, trade_history, stock_var, dropdown_values, price_label,
                   history_text, gui, selects>>
    /\ UNCHANGED <<exchangeVars, chatVars>>

\* update_display, lines 89-92: with nothing selected the label is reset and
\* the function returns.
UpdateDisplayBegin(stock) ==
    IF stock = ""
    THEN price_label' = NoLabel /\ UNCHANGED gui
    ELSE gui' = [pc |-> "L95", stock |-> stock] /\ UNCHANGED price_label

\* The user picks a listed stock: the combobox sets stock_var and raises
\* <<ComboboxSelected>>, bound to update_display, ahead of the queued events.
GuiSelect(stock) ==
    /\ gui.pc = "mainloop"
    /\ selects < MaxSelects
    /\ stock \in SeqToSet(dropdown_values)
    /\ stock_var' = stock
    /\ selects' = selects + 1
    /\ UpdateDisplayBegin(stock)
    /\ UNCHANGED <<latest_prices, trade_history, dropdown_values, history_text, afterQ,
                   listener>>
    /\ UNCHANGED <<exchangeVars, chatVars>>

\* The main loop runs a scheduled lambda: stock_dropdown.configure(values=stocks).
GuiConfigure ==
    /\ gui.pc = "mainloop"
    /\ afterQ # <<>>
    /\ Head(afterQ).kind = "configure"
    /\ dropdown_values' = Head(afterQ).values
    /\ afterQ' = Tail(afterQ)
    /\ UNCHANGED <<latest_prices, trade_history, stock_var, price_label, history_text,
                   listener, gui, selects>>
    /\ UNCHANGED <<exchangeVars, chatVars>>

\* The main loop runs a scheduled update_display.
GuiUpdateDisplay ==
    /\ gui.pc = "mainloop"
    /\ afterQ # <<>>
    /\ Head(afterQ).kind = "update_display"
    /\ afterQ' = Tail(afterQ)
    /\ UpdateDisplayBegin(stock_var)
    /\ UNCHANGED <<latest_prices, trade_history, stock_var, dropdown_values, history_text,
                   listener, selects>>
    /\ UNCHANGED <<exchangeVars, chatVars>>

\* update_display, lines 95-96: the price label.
GuiShowPrice ==
    /\ gui.pc = "L95"
    /\ price_label' = [stock |-> gui.stock, price |-> GetPrice(latest_prices, gui.stock)]
    /\ gui' = [gui EXCEPT !.pc = "L99"]
    /\ UNCHANGED <<latest_prices, trade_history, stock_var, dropdown_values, history_text,
                   afterQ, listener, selects>>
    /\ UNCHANGED <<exchangeVars, chatVars>>

\* update_display, lines 99-102: the history box.
GuiShowHistory ==
    /\ gui.pc = "L99"
    /\ history_text' = Reversed(LastTrades(TradesOf(trade_history, gui.stock)))
    /\ gui' = [pc |-> "mainloop"]
    /\ UNCHANGED <<latest_prices, trade_history, stock_var, dropdown_values, price_label,
                   afterQ, listener, selects>>
    /\ UNCHANGED <<exchangeVars, chatVars>>

NextGUI ==
    \/ ListenerReceive
    \/ ListenerAppend
    \/ ListenerAfterConfigure
    \/ ListenerCheckSelected
    \/ ListenerAfterRefresh
    \/ \E stock \in Stocks : GuiSelect(stock)
    \/ GuiConfigure
    \/ GuiUpdateDisplay
    \/ GuiShowPrice
    \/ GuiShowHistory

SpecGUI == Init /\ [][NextGUI]_vars

\* ---------------------------------------------------------------- chat application
\* chat_application_pdt/chat.py.  Every user runs one ChatApplication with
\* its own user_id (a uuid, here the element of ChatUsers) and its own queue
\* chat_user_<user_id> bound to the fanout exchange 'chat_broadcast'.  The
\* broker is healthy: a publish that returns has put the message on every
\* bound queue, and a lost connection is seen by the application
\* (connection.is_closed, or basic_publish raising before the message leaves).
MaxMessages == 2
MaxDrops == 1

\* simpledialog.askstring(..., initialvalue="User"): two users keep the
\* default name.
Username(u) == IF u = "u3" THEN "Ann" ELSE "User"

\* The users who type messages; the third user only reads.
Senders == {"u1", "u2"}

\* What the user has typed into entry_field when Send is pressed.
Entries == {"", " hi "}

\* str.strip()
Strip(entry) ==
    CASE entry = " hi " -> "hi"
      [] entry = " " -> ""
      [] OTHER -> entry

Open(u) == u \in DOMAIN app /\ app[u].state = "open"

Connected(u) == app[u].connection = "open"

\* setup_connection, lines 82-93: the user's queue is declared (the broker
\* keeps a queue it already has, with its messages) and bound.
DeclareAndBind(qs, u) == IF u \in DOMAIN qs THEN qs ELSE (u :> <<>>) @@ qs

\* setup_connection: on success the connection is open and the user's queue
\* is declared and bound; on failure self.connection keeps its value, which
\* is None or a closed connection.
SetupConnection(u, ok) ==
    IF ok
    THEN /\ app' = [app EXCEPT ![u].connection = "open"]
         /\ queues' = DeclareAndBind(queues, u)
    ELSE /\ app' = [app EXCEPT ![u].connection = IF @ = "none" THEN "none" ELSE "closed"]
         /\ UNCHANGED queues

\* A setup_connection that fails is one more outage of the broker.
Outage(ok) ==
    IF ok THEN UNCHANGED drops ELSE drops < MaxDrops /\ drops' = drops + 1

\* ChatApplication.__init__: the window opens, setup_connection runs and
\* polling starts.
Start(u, ok) ==
    /\ u \notin DOMAIN app
    /\ Outage(ok)
    /\ app' = (u :> [state |-> "open", connection |-> IF ok THEN "open" ELSE "none",
                     message_area |-> <<>>]) @@ app
    /\ queues' = IF ok THEN DeclareAndBind(queues, u) ELSE queues
    /\ UNCHANGED chatLog
    /\ UNCHANGED <<exchangeVars, guiVars>>

\* The message send_message publishes; timestamp is the clock, which the
\* model counts in published messages.
MessageData(u, message) ==
    [sender_id |-> u, username |-> Username(u), message |-> message,
     timestamp |-> Len(chatLog) + 1]

Bound == DOMAIN queues

\* basic_publish(exchange='chat_broadcast', routing_key=''): a fanout exchange
\* copies the message to every queue bound to it.
Fanout(qs, data) == [v \in DOMAIN qs |-> Append(qs[v], data)]

\* "You [timestamp]: message"
OwnLine(data) == [name |-> "You", timestamp |-> data.timestamp, message |-> data.message]

\* "username [timestamp]: message"
FormattedMsg(data) ==
    [name |-> data.username, timestamp |-> data.timestamp, message |-> data.message]

\* send_message with the publish succeeding, and its two early returns.
SendMessage(u, entry) ==
    LET message == Strip(entry)
        data == MessageData(u, message)
    IN /\ Open(u)
       /\ Len(chatLog) < MaxMessages
       /\ IF message = "" \/ ~Connected(u)
          THEN UNCHANGED <<app, queues, chatLog>>
          ELSE /\ queues' = Fanout(queues, data)
               /\ app' = [app EXCEPT ![u].message_area = Append(@, OwnLine(data))]
               /\ chatLog' = Append(chatLog, [data |-> data, bound |-> Bound])
       /\ UNCHANGED drops
       /\ UNCHANGED <<exchangeVars, guiVars>>

\* send_message with basic_publish raising because the connection is gone:
\* nothing is inserted and reconnect() runs.
SendMessageFails(u, entry, ok) ==
    /\ Open(u)
    /\ Strip(entry) # ""
    /\ Connected(u)
    /\ drops < MaxDrops
    /\ drops' = drops + 1
    /\ SetupConnection(u, ok)
    /\ UNCHANGED chatLog
    /\ UNCHANGED <<exchangeVars, guiVars>>

\* The connection of a user is lost between two calls; basic_get raising in
\* poll_messages (lines 165-167) leaves the same state.
ConnectionLost(u) ==
    /\ Open(u)
    /\ Connected(u)
    /\ drops < MaxDrops
    /\ drops' = drops + 1
    /\ app' = [app EXCEPT ![u].connection = "closed"]
    /\ UNCHANGED <<queues, chatLog>>
    /\ UNCHANGED <<exchangeVars, guiVars>>

SkipOwnByUsername(u, data) == data.username = Username(u)

\* if message_data.get('sender_id') != self.user_id, negated
SkipOwn(u, data) == data.sender_id = u

\* poll_messages: without a connection reconnect() runs; with one, basic_get
\* takes at most one message off the user's queue (auto_ack) and the message
\* is inserted unless it is the user's own.  ok is the outcome of the
\* reconnect and is read only without a connection.
PollMessages(u, ok) ==
    /\ Open(u)
    /\ Connected(u) => ok
    /\ IF ~Connected(u)
       THEN Outage(ok) /\ SetupConnection(u, ok)
       ELSE /\ UNCHANGED drops
            /\ IF queues[u] = <<>>
               THEN UNCHANGED <<app, queues>>
               ELSE LET data == Head(queues[u])
                    IN /\ queues' = [queues EXCEPT ![u] = Tail(@)]
                       /\ app' = [app EXCEPT ![u].message_area =
                                     IF SkipOwn(u, data) THEN @
                                     ELSE Append(@, FormattedMsg(data))]
    /\ UNCHANGED chatLog
    /\ UNCHANGED <<exchangeVars, guiVars>>

\* on_closing: with the connection open the user's queue is deleted; the
\* window is destroyed.
OnClosing(u) ==
    /\ Open(u)
    /\ app' = [app EXCEPT ![u] = [state |-> "closed", connection |-> "closed",
                                  message_area |-> <<>>]]
    /\ queues' = IF Connected(u) THEN [v \in DOMAIN queues \ {u} |-> queues[v]] ELSE queues
    /\ UNCHANGED <<chatLog, drops>>
    /\ UNCHANGED <<exchangeVars, guiVars>>

NextChat ==
    \/ \E u \in ChatUsers, ok \in BOOLEAN : Start(u, ok)
    \/ \E u \in Senders, entry \in Entries : SendMessage(u, entry)
    \/ \E u \in Senders, entry \in Entries, ok \in BOOLEAN : SendMessageFails(u, entry, ok)
    \/ \E u \in ChatUsers : ConnectionLost(u)
    \/ \E u \in ChatUsers, ok \in BOOLEAN : PollMessages(u, ok)
    \/ \E u \in ChatUsers : OnClosing(u)

SpecChat == Init /\ [][NextChat]_vars

\* ---------------------------------------------------------------- properties
\* The list of one side of a stock's book, empty when the book does not exist.
BookOf(books, stock, side) ==
    IF stock \in DOMAIN books THEN books[stock][side] ELSE <<>>

\* Every order resting in any book.
RestingOrders(books) ==
    UNION {SeqToSet(books[s].BUY) \cup SeqToSet(books[s].SELL) : s \in DOMAIN books}

\* The last callback called match_order with a valid order.
LastValid == last.called /\ IsValidBody(last.body)

LastStock == last.body.stock
LastSide == last.body.side
LastOpposite == OppositeSide(last.body.side)

\* Quantity with which the order of the last callback rests now.
Residual ==
    SumQty(SelectSeq(BookOf(order_books, LastStock, LastSide),
                     LAMBDA o : o.seq = last.seq))

\* C1: after every callback, in every stock's book the highest resting BUY
\* price is strictly less than the lowest resting SELL price (checked after
\* every delivery, valid or not, which covers every sequence of valid orders).
C1_NoCrossedBook ==
    \A s \in DOMAIN order_books :
        \A b \in SeqToSet(order_books[s].BUY) :
            \A a \in SeqToSet(order_books[s].SELL) : b.price < a.price

\* A valid order crossed, traded, and left resting orders on both sides.
C1_Witness ==
    /\ LastValid
    /\ last.trades # <<>>
    /\ BookOf(order_books, LastStock, "BUY") # <<>>
    /\ BookOf(order_books, LastStock, "SELL") # <<>>

\* C2: every trade of the last match_order call has the price of the resting
\* order it was matched against, whichever side the incoming order is on.
C2_TradeAtRestingPrice ==
    \A i \in 1..Len(last.trades) : last.trades[i].price = last.fills[i].restingPrice

\* C3: when match_order matches a resting order, every order that rested on
\* the same side of the same stock at the same price and arrived earlier has
\* already been filled completely by an earlier trade of the same call.
C3_PriceTimePriority ==
    \A j \in 1..Len(last.fills) :
        \A o \in SeqToSet(BookOf(last.before, LastStock, LastOpposite)) :
            (o.price = last.fills[j].restingPrice /\ o.seq < last.fills[j].resting)
                => \E i \in 1..(j - 1) :
                      /\ last.fills[i].resting = o.seq
                      /\ last.fills[i].quantity = o.quantity

\* An order was matched while a later order of the same price rested beside it.
C3_Witness ==
    \E j \in 1..Len(last.fills) :
        \E o \in SeqToSet(BookOf(last.before, LastStock, LastOpposite)) :
            o.price = last.fills[j].restingPrice /\ o.seq > last.fills[j].resting

\* C4: a malformed or invalid message produces no trade, publishes nothing
\* and adds, removes or reduces no resting order.
C4_InvalidOrderNoEffect ==
    (last.seq > 0 /\ ~IsValidBody(last.body))
        => /\ last.trades = <<>>
           /\ last.published = 0
           /\ RestingOrders(order_books) = RestingOrders(last.before)

\* C5: a message that fails to parse or lacks a field is discarded without
\* calling match_order and the exchange keeps consuming.
C5_MalformedDiscardedLoopContinues ==
    (last.seq > 0 /\ IsMalformed(last.body))
        => ~last.called /\ exchange = "running"

\* C6: for a valid order, the quantities of the returned trades sum to the
\* quantity removed from the opposite side, and that sum plus the quantity
\* with which the order rests equals the order's original quantity.
C6_QuantityConservation ==
    LastValid =>
        /\ SumQty(last.trades)
              = SumQty(BookOf(last.before, LastStock, LastOpposite))
                - SumQty(BookOf(order_books, LastStock, LastOpposite))
        /\ SumQty(last.trades) + Residual = last.body.quantity

\* A valid order traded and rests with what was left of it.
C6_Witness == LastValid /\ last.trades # <<>> /\ Residual > 0

\* C7: every trade match_order returned for a consumed order is published
\* to the 'trades' queue, also when the channel drops.
C7_MatchedTradesPublished ==
    (last.called /\ ~last.raised) => last.published = Len(last.trades)

\* C8: the messages published to 'trades' are exactly the concatenation, in
\* order of consumption, of the trade lists match_order returned.
C8_SerialOrderedEmission == tradesQ = returned

\* C9: every order in a BUY list has side BUY, every order in a SELL list has
\* side SELL, and every resting order has quantity > 0.
C9_RestingOrderInvariant ==
    \A s \in DOMAIN order_books : \A side \in BookSides :
        \A o \in SeqToSet(order_books[s][side]) : o.side = side /\ o.quantity > 0

\* A resting order was filled completely and left the book while another
\* was reduced and stays.
C9_Witness ==
    /\ \E i \in 1..Len(last.fills) : last.fills[i].quantity = last.fills[i].restingQty
    /\ \E i \in 1..Len(last.fills) : last.fills[i].quantity < last.fills[i].restingQty

\* C10: a valid order arriving when the opposite side of its stock is empty
\* returns no trade, is appended to its own side with its full quantity, and
\* nothing else in any book changes.
C10_NonCrossingRests ==
    (LastValid /\ BookOf(last.before, LastStock, LastOpposite) = <<>>)
        => /\ last.trades = <<>>
           /\ DOMAIN order_books = DOMAIN last.before \cup {LastStock}
           /\ order_books[LastStock][LastSide]
                = Append(BookOf(last.before, LastStock, LastSide),
                         [username |-> last.body.username, stock |-> LastStock,
                          side |-> LastSide, quantity |-> last.body.quantity,
                          price |-> last.body.price, seq |-> last.seq])
           /\ order_books[LastStock][LastOpposite] = <<>>
           /\ \A s \in DOMAIN last.before \ {LastStock} : order_books[s] = last.before[s]

\* A valid order came to rest behind an earlier order of its own side.
C10_Witness ==
    /\ LastValid
    /\ BookOf(last.before, LastStock, LastOpposite) = <<>>
    /\ BookOf(last.before, LastStock, LastSide) # <<>>

\* The first k messages consumed were the first k orders of the scenario.
ScenarioPrefix(k) ==
    /\ Len(ledger) = k
    /\ \A i \in 1..k : ledger[i].original = ScenarioOrders[i].quantity

\* Quantity and price of the orders of a list, in order.
Shape(orders) ==
    [i \in 1..Len(orders) |-> [quantity |-> orders[i].quantity, price |-> orders[i].price]]

\* C11: the reference scenario Sell 100 @50 (A), Buy 60 @51 (B), Buy 50 @49
\* (C), Sell 40 @48 (D) on an empty book yields no trade and asks [100@50];
\* the trade B/A 60 @50 and asks [40@50]; no trade and bids [50@49]; the
\* trade C/D 40 @49 and bids [10@49].
C11_ReferenceScenario ==
    /\ ScenarioPrefix(1) =>
          /\ last.trades = <<>>
          /\ Shape(BookOf(order_books, "XYZ", "SELL")) = <<[quantity |-> 100, price |-> 50]>>
    /\ ScenarioPrefix(2) =>
          /\ last.trades = <<[stock |-> "XYZ", buyer |-> "B", seller |-> "A",
                              price |-> 50, quantity |-> 60]>>
          /\ Shape(BookOf(order_books, "XYZ", "SELL")) = <<[quantity |-> 40, price |-> 50]>>
    /\ ScenarioPrefix(3) =>
          /\ last.trades = <<>>
          /\ Shape(BookOf(order_books, "XYZ", "BUY")) = <<[quantity |-> 50, price |-> 49]>>
    /\ ScenarioPrefix(4) =>
          /\ last.trades = <<[stock |-> "XYZ", buyer |-> "C", seller |-> "D",
                              price |-> 49, quantity |-> 40]>>
          /\ Shape(BookOf(order_books, "XYZ", "BUY")) = <<[quantity |-> 10, price |-> 49]>>

\* A body with side and stock in upper case.
UpperBody(b) == [b EXCEPT !.side = Upper(b.side), !.stock = Upper(b.stock)]

\* C12: a consumed order message has the effect of the message with side and
\* stock in upper case: messages differing only in letter case are matched
\* as the same side and applied to the same book.
C12_CaseNormalized ==
    last.called =>
        LET n == MatchOrder(last.before, UpperBody(last.body), last.seq)
        IN /\ order_books = n.books
           /\ last.trades = n.trades
           /\ last.raised = n.raised

\* C13: a message published by a submission client carries all six fields
\* with side BUY or SELL, quantity > 0 and price > 0, and a command line
\* that violates this publishes nothing.
C13_ClientsPublishWellFormed ==
    /\ sent.published => IsValidBody(sent.body)
    /\ (sent.client # "none"
        /\ (Upper(sent.argv.side) \notin BookSides \/ sent.argv.quantity <= 0
            \/ sent.argv.price <= 0))
          => ~sent.published

\* The order, as it rested before the last call, that the j-th trade of the
\* last call was matched against.
RestingOf(j) ==
    CHOOSE o \in SeqToSet(BookOf(last.before, LastStock, LastOpposite)) :
        o.seq = last.fills[j].resting

\* Quantity with which the n-th consumed order rests now.
RestingQty(n) ==
    LET S == {o \in RestingOrders(order_books) : o.seq = n}
    IN IF S = {} THEN 0 ELSE (CHOOSE o \in S : TRUE).quantity

\* C14: every trade of a call is against the best-priced order then left on
\* the opposite side (lowest SELL, highest BUY), and an order that comes to
\* rest leaves no price-compatible order on the opposite side.
C14_PricePriority ==
    /\ \A j \in 1..Len(last.fills) :
          \A o \in SeqToSet(BookOf(last.before, LastStock, LastOpposite)) :
              (\A i \in 1..(j - 1) : last.fills[i].resting # o.seq)
                  => IF LastOpposite = "SELL"
                     THEN RestingOf(j).price <= o.price
                     ELSE RestingOf(j).price >= o.price
    /\ (last.called /\ LastSide \in BookSides /\ Residual > 0) =>
          \A o \in SeqToSet(BookOf(order_books, LastStock, LastOpposite)) :
              IF LastSide = "BUY" THEN last.body.price < o.price
                                  ELSE last.body.price > o.price

\* An order was matched ahead of an earlier order of a worse price.
C14_Witness ==
    \E j \in 1..Len(last.fills) :
        \E o \in SeqToSet(BookOf(last.before, LastStock, LastOpposite)) :
            o.price # RestingOf(j).price /\ o.seq < RestingOf(j).seq

\* C15: every trade has the quantity min(remaining quantity of the incoming
\* order, quantity of the resting order), which is > 0, the BUY order's
\* username as buyer and the SELL order's username as seller.
C15_TradeQuantityAndParties ==
    \A j \in 1..Len(last.trades) :
        LET t == last.trades[j]
            o == RestingOf(j)
            rem == last.body.quantity - SumQty(SubSeq(last.trades, 1, j - 1))
        IN /\ t.quantity > 0
           /\ t.quantity <= rem /\ t.quantity <= o.quantity
           /\ t.quantity = rem \/ t.quantity = o.quantity
           /\ t.buyer = (IF LastSide = "BUY" THEN last.body.username ELSE o.username)
           /\ t.seller = (IF LastSide = "BUY" THEN o.username ELSE last.body.username)

\* A trade between two different users with a SELL as incoming order.
C15_Witness ==
    /\ LastSide = "SELL"
    /\ \E j \in 1..Len(last.trades) : last.trades[j].buyer # last.trades[j].seller

\* C16: in every step, an order resting in the book either stays in the same
\* list with the same username, side, stock and price and a quantity reduced
\* by exactly what was traded against it, or leaves the book having been
\* filled completely.
C16_RestingOnlyReducedOrRemoved ==
    [][\A o \in RestingOrders(order_books) :
          LET same == {p \in RestingOrders(order_books') : p.seq = o.seq}
          IN IF same = {}
             THEN FilledOf(last'.fills, o.seq) = o.quantity
             ELSE \A p \in same :
                     /\ p.username = o.username /\ p.side = o.side
                     /\ p.stock = o.stock /\ p.price = o.price
                     /\ p.quantity <= o.quantity
                     /\ p.quantity = o.quantity - FilledOf(last'.fills, o.seq)
                     /\ p \in SeqToSet(BookOf(order_books', o.stock, o.side))]_vars

\* A resting order was reduced by a trade and is still in the book.
C16_Witness ==
    \E i \in 1..Len(last.fills) :
        /\ last.fills[i].quantity < last.fills[i].restingQty
        /\ RestingQty(last.fills[i].resting) > 0

\* C17: a call for one stock leaves the book of every other stock as it was,
\* and leaves its own side as it was except for the incoming order's
\* residual appended at the end.
C17_Frame ==
    last.called =>
        /\ DOMAIN order_books = DOMAIN last.before \cup {LastStock}
        /\ \A s \in DOMAIN last.before \ {LastStock} : order_books[s] = last.before[s]
        /\ LastSide \in BookSides =>
              LET own == order_books[LastStock][LastSide]
                  was == BookOf(last.before, LastStock, LastSide)
              IN \/ own = was
                 \/ /\ Len(own) = Len(was) + 1
                    /\ SubSeq(own, 1, Len(was)) = was
                    /\ own[Len(own)].seq = last.seq

\* A call traded in one stock while another stock had resting orders.
C17_Witness ==
    /\ LastValid
    /\ last.trades # <<>>
    /\ \E o \in RestingOrders(last.before) : o.stock # LastStock

\* C18: for every valid order consumed so far, the quantity it has traded,
\* as incoming and as resting order, plus the quantity with which it rests
\* now equals its original quantity.
C18_FillsAccounted ==
    \A n \in 1..Len(ledger) :
        ledger[n].valid => ledger[n].traded + RestingQty(n) = ledger[n].original

\* An order traded in the last call as resting order and had traded before.
C18_Witness ==
    \E n \in 1..Len(ledger) :
        /\ ledger[n].valid
        /\ FilledOf(last.fills, n) > 0
        /\ ledger[n].traded > FilledOf(last.fills, n)

\* C19: every iteration of the matching loop that trades strictly decreases
\* the incoming order's remaining quantity, so the loop runs at most as many
\* times as the order's quantity, and a callback that raised nothing leaves
\* the exchange consuming.
C19_LoopTerminates ==
    /\ \A j \in 1..Len(last.fills) :
          /\ last.fills[j].quantity >= 1
          /\ last.fills[j].remainingBefore
                = last.body.quantity - SumQty(SubSeq(last.fills, 1, j - 1))
          /\ last.fills[j].remainingBefore - last.fills[j].quantity >= 0
    /\ Len(last.fills) <= last.body.quantity
    /\ (last.called /\ ~last.raised /\ last.published = Len(last.trades))
          => exchange = "running"

\* A call whose loop traded more than once.
C19_Witness == Len(last.fills) >= 2 /\ exchange = "running"

\* C20: every trade's price is at most the BUY order's limit and at least
\* the SELL order's limit, whichever of the two is the incoming order.
C20_TradePriceWithinLimits ==
    \A j \in 1..Len(last.trades) :
        LET o == RestingOf(j)
            buyLimit == IF LastSide = "BUY" THEN last.body.price ELSE o.price
            sellLimit == IF LastSide = "BUY" THEN o.price ELSE last.body.price
        IN sellLimit <= last.trades[j].price /\ last.trades[j].price <= buyLimit

\* A valid incoming SELL traded against a BUY of a higher limit.
C20_Witness ==
    /\ LastValid
    /\ LastSide = "SELL"
    /\ \E j \in 1..Len(last.trades) : RestingOf(j).price > last.body.price

\* ---------------------------------------------------------------- display client properties
\* The positions in trade_history of the trades of the selected stock.
ReceivedOf(stock) == {i \in 1..Len(trade_history) : trade_history[i].stock = stock}

\* The k-th newest received trade of the stock.
NewestOf(stock, k) ==
    trade_history[CHOOSE i \in ReceivedOf(stock) :
                      Cardinality({j \in ReceivedOf(stock) : j > i}) = k - 1]

\* A stock is selected, the listener is between two callbacks, the GUI thread
\* is back in the main loop and no scheduled update_display is left to run.
RefreshesDone ==
    /\ stock_var # ""
    /\ listener.pc = "consuming"
    /\ gui.pc = "mainloop"
    /\ \A i \in 1..Len(afterQ) : afterQ[i].kind # "update_display"

\* C21: however the receipts of the listener thread interleave with the
\* refreshes of the GUI thread, once the scheduled refreshes have run the
\* price label shows the selected stock and the price of its most recently
\* received trade, and the history box shows the most recently received
\* trades of that stock, at most 10 of them, newest first, and no trade of
\* another stock.
C21_DisplayShowsLatest ==
    RefreshesDone =>
        /\ ReceivedOf(stock_var) # {}
        /\ price_label = [stock |-> stock_var, price |-> NewestOf(stock_var, 1).price]
        /\ Len(history_text) = Min(10, Cardinality(ReceivedOf(stock_var)))
        /\ \A k \in 1..Len(history_text) :
              /\ history_text[k] = NewestOf(stock_var, k)
              /\ history_text[k].stock = stock_var

\* More than 10 trades of the selected stock and a trade of another stock
\* have been received, the last trade arrived while its stock was selected,
\* and every scheduled refresh has run.
C21_Witness ==
    /\ RefreshesDone
    /\ Cardinality(ReceivedOf(stock_var)) > 10
    /\ \E i \in 1..Len(trade_history) : trade_history[i].stock # stock_var
    /\ trade_history[Len(trade_history)].stock = stock_var
    /\ Len(history_text) = 10
    /\ history_text[1] = trade_history[Len(trade_history)]

\* ---------------------------------------------------------------- chat properties
IsOwnLine(line) == line.name = "You"
IsOtherLine(line) == line.name # "You"

\* The lines a window must hold for the messages user u has sent, in the
\* order of sending.
SentLines(u) ==
    LET BySender(e) == e.data.sender_id = u
        log == SelectSeq(chatLog, BySender)
    IN [i \in 1..Len(log) |-> OwnLine(log[i].data)]

\* The lines for the messages of other users published while u's queue was
\* bound, in the order of publication, which is the order of delivery to the
\* queue.
DeliveredLines(u) ==
    LET ToUser(e) == u \in e.bound /\ e.data.sender_id # u
        log == SelectSeq(chatLog, ToUser)
    IN [i \in 1..Len(log) |-> FormattedMsg(log[i].data)]

\* The messages on u's queue.
Waiting(u) == IF u \in DOMAIN queues THEN queues[u] ELSE <<>>

\* The lines for the messages of other users still waiting on u's queue.
WaitingLines(u) ==
    LET FromOther(data) == data.sender_id # u
        waiting == SelectSeq(Waiting(u), FromOther)
    IN [i \in 1..Len(waiting) |-> FormattedMsg(waiting[i])]

\* C22: in the window of every user the user's own messages appear exactly
\* once each, as the lines inserted on send (the broadcast copy is skipped),
\* and the messages of the other users that were published while the user's
\* queue was bound appear exactly once each, in the order of delivery, as
\* soon as they have been taken off the queue.
C22_ChatBroadcastOnce ==
    \A u \in ChatUsers :
        Open(u) =>
            /\ SelectSeq(app[u].message_area, IsOwnLine) = SentLines(u)
            /\ SelectSeq(app[u].message_area, IsOtherLine) \o WaitingLines(u)
                   = DeliveredLines(u)

\* A user has sent a message with the own queue bound, has polled the copy
\* off the queue and shows the message once; another user has polled two
\* messages of other users and shows both in the order of delivery.
C22_Witness ==
    \E u, v \in ChatUsers :
        /\ u # v
        /\ Open(u) /\ Open(v)
        /\ \E i \in 1..Len(chatLog) :
              /\ chatLog[i].data.sender_id = u
              /\ {u, v} \subseteq chatLog[i].bound
        /\ Waiting(u) = <<>>
        /\ Waiting(v) = <<>>
        /\ Len(SelectSeq(app[u].message_area, IsOwnLine)) >= 1
        /\ Len(DeliveredLines(v)) >= 2
        /\ SelectSeq(app[v].message_area, IsOtherLine) = DeliveredLines(v)

====
